---- MODULE Spec2Model ----
(***************************************************************************)
(* Byte-layout codec and staged builder of src/src/builder.rs.             *)
(*                                                                         *)
(* Representation.  A byte is a natural in 0..255 and a u16 a natural in   *)
(* 0..65535.  `Bytes` ([u8; 16]) and the other byte arrays are sequences,  *)
(* so Rust's b[i] is b[i + 1] here; At(b, i) reads with Rust's index.      *)
(* The integers wider than 16 bits (u32, u64, u128) exceed the 32-bit      *)
(* integers of TLC, so they are kept as vectors of 4-bit digits:           *)
(* a function over 0..(w/4 - 1) whose entry i holds bits 4i..4i+3.  Every  *)
(* shift and mask the source applies to such an integer is a multiple of   *)
(* four bits, so shifts move whole digits and masks keep whole digits.     *)
(***************************************************************************)
EXTENDS Naturals, Integers, Sequences, FiniteSets, TLC

VARIABLES call, ret, builder, origin, log

vars == <<call, ret, builder, origin, log>>

(***************************************************************************)
(* Bounds of the model.                                                    *)
(***************************************************************************)
\* number of generated 16-byte patterns besides nil, max and the doc example
NumPatterns == 3
\* slices handed to from_slice / from_slice_le have 0..MaxSliceLen bytes
MaxSliceLen == 18
\* stamps (set_/with_ version/variant) applied to one builder
MaxStamps == 3

(***************************************************************************)
(* Bit operations on naturals (u8 and u16 operands of the source).         *)
(***************************************************************************)
RECURSIVE BitAnd(_, _)
BitAnd(a, b) ==
    IF a = 0 \/ b = 0 THEN 0
    ELSE (a % 2) * (b % 2) + 2 * BitAnd(a \div 2, b \div 2)

RECURSIVE BitOr(_, _)
BitOr(a, b) ==
    IF a = 0 THEN b
    ELSE IF b = 0 THEN a
    ELSE (IF a % 2 = 1 \/ b % 2 = 1 THEN 1 ELSE 0) + 2 * BitOr(a \div 2, b \div 2)

\* x << 4 on a u8: the bits shifted past bit 7 are dropped
ShlU8_4(x) == (x * 16) % 256

(***************************************************************************)
(* Wide integers (u32, u64, u128) as vectors of 4-bit digits.              *)
(***************************************************************************)
Digit(v, i) == IF i \in DOMAIN v THEN v[i] ELSE 0

\* v >> k, k a multiple of 4
Shr(v, k) == [i \in DOMAIN v |-> Digit(v, i + (k \div 4))]

\* v & (2^bits - 1), bits a multiple of 4: 0xFFFF_FFFF, 0xFFFF, 0x0FFF
AndLow(v, bits) == [i \in DOMAIN v |-> IF 4 * i + 3 < bits THEN v[i] ELSE 0]

\* `as u8`, `as u16`: truncating casts to a natural
AsU8(v) == Digit(v, 0) + 16 * Digit(v, 1)

AsU16(v) == Digit(v, 0) + 16 * Digit(v, 1) + 256 * Digit(v, 2) + 4096 * Digit(v, 3)

\* `as u32`, `as u64`: truncating casts that stay wide
AsU32(v) == [i \in 0..7 |-> Digit(v, i)]

AsU64(v) == [i \in 0..15 |-> Digit(v, i)]

\* a u16 seen as a wide integer, to go through >> and `as u8` like the others
WideU16(x) == [i \in 0..3 |-> (x \div (16 ^ i)) % 16]

(***************************************************************************)
(* impl Uuid: the codec.  A Uuid is its 16 bytes.                          *)
(***************************************************************************)
Uuid_from_bytes(bytes) == bytes

\* from_bytes_le leaving the third field (bytes 6-7) unswapped
Uuid_from_bytes_le_D3Unswapped(b) ==
    << b[4], b[3], b[2], b[1], b[6], b[5], b[7], b[8],
       b[9], b[10], b[11], b[12], b[13], b[14], b[15], b[16] >>

Uuid_from_bytes_le(b) ==
    << b[4], b[3], b[2], b[1], b[6], b[5], b[8], b[7],
       b[9], b[10], b[11], b[12], b[13], b[14], b[15], b[16] >>

Uuid_nil == Uuid_from_bytes([i \in 1..16 |-> 0])

\* max written with 0x0F for 0xFF
Uuid_max_LowNibbles == Uuid_from_bytes([i \in 1..16 |-> 15])

Uuid_max == Uuid_from_bytes([i \in 1..16 |-> 255])

\* from_fields placing d2 low byte first
Uuid_from_fields_D2Swapped(d1, d2, d3, d4) ==
    Uuid_from_bytes(<<
        AsU8(Shr(d1, 24)),
        AsU8(Shr(d1, 16)),
        AsU8(Shr(d1, 8)),
        AsU8(d1),
        AsU8(WideU16(d2)),
        AsU8(Shr(WideU16(d2), 8)),
        AsU8(Shr(WideU16(d3), 8)),
        AsU8(WideU16(d3)),
        d4[1], d4[2], d4[3], d4[4], d4[5], d4[6], d4[7], d4[8] >>)

Uuid_from_fields(d1, d2, d3, d4) ==
    Uuid_from_bytes(<<
        AsU8(Shr(d1, 24)),
        AsU8(Shr(d1, 16)),
        AsU8(Shr(d1, 8)),
        AsU8(d1),
        AsU8(Shr(WideU16(d2), 8)),
        AsU8(WideU16(d2)),
        AsU8(Shr(WideU16(d3), 8)),
        AsU8(WideU16(d3)),
        d4[1], d4[2], d4[3], d4[4], d4[5], d4[6], d4[7], d4[8] >>)

Uuid_from_fields_le(d1, d2, d3, d4) ==
    Uuid_from_bytes(<<
        AsU8(d1),
        AsU8(Shr(d1, 8)),
        AsU8(Shr(d1, 16)),
        AsU8(Shr(d1, 24)),
        AsU8(WideU16(d2)),
        AsU8(Shr(WideU16(d2), 8)),
        AsU8(WideU16(d3)),
        AsU8(Shr(WideU16(d3), 8)),
        d4[1], d4[2], d4[3], d4[4], d4[5], d4[6], d4[7], d4[8] >>)

Uuid_from_u128(v) ==
    Uuid_from_bytes(<<
        AsU8(Shr(v, 120)), AsU8(Shr(v, 112)), AsU8(Shr(v, 104)), AsU8(Shr(v, 96)),
        AsU8(Shr(v, 88)), AsU8(Shr(v, 80)), AsU8(Shr(v, 72)), AsU8(Shr(v, 64)),
        AsU8(Shr(v, 56)), AsU8(Shr(v, 48)), AsU8(Shr(v, 40)), AsU8(Shr(v, 32)),
        AsU8(Shr(v, 24)), AsU8(Shr(v, 16)), AsU8(Shr(v, 8)), AsU8(v) >>)

Uuid_from_u128_le(v) ==
    Uuid_from_bytes(<<
        AsU8(v), AsU8(Shr(v, 8)), AsU8(Shr(v, 16)), AsU8(Shr(v, 24)),
        AsU8(Shr(v, 32)), AsU8(Shr(v, 40)), AsU8(Shr(v, 48)), AsU8(Shr(v, 56)),
        AsU8(Shr(v, 64)), AsU8(Shr(v, 72)), AsU8(Shr(v, 80)), AsU8(Shr(v, 88)),
        AsU8(Shr(v, 96)), AsU8(Shr(v, 104)), AsU8(Shr(v, 112)), AsU8(Shr(v, 120)) >>)

Uuid_from_u64_pair(high_bits, low_bits) ==
    Uuid_from_bytes(<<
        AsU8(Shr(high_bits, 56)), AsU8(Shr(high_bits, 48)),
        AsU8(Shr(high_bits, 40)), AsU8(Shr(high_bits, 32)),
        AsU8(Shr(high_bits, 24)), AsU8(Shr(high_bits, 16)),
        AsU8(Shr(high_bits, 8)), AsU8(high_bits),
        AsU8(Shr(low_bits, 56)), AsU8(Shr(low_bits, 48)),
        AsU8(Shr(low_bits, 40)), AsU8(Shr(low_bits, 32)),
        AsU8(Shr(low_bits, 24)), AsU8(Shr(low_bits, 16)),
        AsU8(Shr(low_bits, 8)), AsU8(low_bits) >>)

\* Result<_, Error>: Ok(value) or Err(Error(ErrorKind::ByteLength { len }))
Ok(v) == [ok |-> TRUE, value |-> v]

ErrByteLength(n) == [ok |-> FALSE, kind |-> "ByteLength", len |-> n]

\* from_slice rejecting only the short slices, cutting the long ones to 16 bytes
Uuid_from_slice_Truncating(b) ==
    IF Len(b) < 16 THEN ErrByteLength(Len(b))
    ELSE Ok(Uuid_from_bytes([i \in 1..16 |-> b[i]]))

Uuid_from_slice(b) ==
    IF Len(b) # 16 THEN ErrByteLength(Len(b))
    ELSE Ok(Uuid_from_bytes([i \in 1..16 |-> b[i]]))

Uuid_from_slice_le(b) ==
    IF Len(b) # 16 THEN ErrByteLength(Len(b))
    ELSE Ok(Uuid_from_bytes_le([i \in 1..16 |-> b[i]]))

(***************************************************************************)
(* Variant and Version (crate root).  `v as u8` is the discriminant.       *)
(***************************************************************************)
Variant == {"NCS", "RFC4122", "Microsoft", "Future"}

Version ==
    {"Nil", "Mac", "Dce", "Md5", "Random", "Sha1", "SortMac", "SortRand", "Custom", "Max"}

VersionAsU8(v) ==
    CASE v = "Nil" -> 0
      [] v = "Mac" -> 1
      [] v = "Dce" -> 2
      [] v = "Md5" -> 3
      [] v = "Random" -> 4
      [] v = "Sha1" -> 5
      [] v = "SortMac" -> 6
      [] v = "SortRand" -> 7
      [] v = "Custom" -> 8
      [] v = "Max" -> 255

(***************************************************************************)
(* impl Builder.  Builder(Uuid) is a newtype: a builder is the 16 bytes of *)
(* the value it stages.                                                    *)
(***************************************************************************)
Builder(uuid) == uuid

\* with_variant whose Microsoft arm masks with 0x0f instead of 0x1f
Builder_with_variant_NarrowMask(self, v) ==
    LET byte == self[9]
    IN  [self EXCEPT ![9] =
            CASE v = "NCS" -> BitAnd(byte, 127)
              [] v = "RFC4122" -> BitOr(BitAnd(byte, 63), 128)
              [] v = "Microsoft" -> BitOr(BitAnd(byte, 15), 192)
              [] v = "Future" -> BitOr(byte, 224)]

\* with_variant whose RFC4122 arm sets bit 7 without clearing bit 6
Builder_with_variant_NoClear(self, v) ==
    LET byte == self[9]
    IN  [self EXCEPT ![9] =
            CASE v = "NCS" -> BitAnd(byte, 127)
              [] v = "RFC4122" -> BitOr(byte, 128)
              [] v = "Microsoft" -> BitOr(BitAnd(byte, 31), 192)
              [] v = "Future" -> BitOr(byte, 224)]

Builder_with_variant(self, v) ==
    LET byte == self[9]
    IN  [self EXCEPT ![9] =
            CASE v = "NCS" -> BitAnd(byte, 127)
              [] v = "RFC4122" -> BitOr(BitAnd(byte, 63), 128)
              [] v = "Microsoft" -> BitOr(BitAnd(byte, 31), 192)
              [] v = "Future" -> BitOr(byte, 224)]

\* set_variant dropping the builder with_variant returns
Builder_set_variant_Dropped(self, v) == self

Builder_set_variant(self, v) == Builder_with_variant(Builder(self), v)

\* with_version or-ing the new nibble over the old one
Builder_with_version_NoMask(self, v) ==
    [self EXCEPT ![7] = BitOr(self[7], ShlU8_4(VersionAsU8(v)))]

Builder_with_version(self, v) ==
    [self EXCEPT ![7] = BitOr(BitAnd(self[7], 15), ShlU8_4(VersionAsU8(v)))]

Builder_set_version(self, v) == Builder_with_version(Builder(self), v)

Builder_as_uuid(self) == self

Builder_into_uuid(self) == self

Builder_from_bytes(b) == Builder(Uuid_from_bytes(b))

Builder_from_bytes_le(b) == Builder(Uuid_from_bytes_le(b))

Builder_from_fields(d1, d2, d3, d4) == Builder(Uuid_from_fields(d1, d2, d3, d4))

Builder_from_fields_le(d1, d2, d3, d4) == Builder(Uuid_from_fields_le(d1, d2, d3, d4))

Builder_from_u128(v) == Builder(Uuid_from_u128(v))

Builder_from_u128_le(v) == Builder(Uuid_from_u128_le(v))

Builder_nil == Builder(Uuid_nil)

\* the `?` of from_slice / from_slice_le: the error is passed on, no builder is made
Builder_from_slice(b) ==
    LET r == Uuid_from_slice(b)
    IN  IF r.ok THEN Ok(Builder(r.value)) ELSE r

Builder_from_slice_le(b) ==
    LET r == Uuid_from_slice_le(b)
    IN  IF r.ok THEN Ok(Builder(r.value)) ELSE r

\* d4 of the two RFC 4122 timestamp constructors: clock sequence and node id
ClockSeqAndNode(counter, node_id) ==
    << BitOr((BitAnd(counter, 16128) \div 256) % 256, 128),
       BitAnd(counter, 255) % 256,
       node_id[1], node_id[2], node_id[3], node_id[4], node_id[5], node_id[6] >>

\* from_rfc4122_timestamp masking the high ticks with 0xFFFF instead of 0x0FFF
Builder_from_rfc4122_timestamp_WideMask(ticks, counter, node_id) ==
    LET time_low == AsU32(AndLow(ticks, 32))
        time_mid == AsU16(AndLow(Shr(ticks, 32), 16))
        time_high_and_version == BitOr(AsU16(AndLow(Shr(ticks, 48), 16)), 4096)
        d4 == ClockSeqAndNode(counter, node_id)
    IN  Builder_from_fields(time_low, time_mid, time_high_and_version, d4)

Builder_from_rfc4122_timestamp(ticks, counter, node_id) ==
    LET time_low == AsU32(AndLow(ticks, 32))
        time_mid == AsU16(AndLow(Shr(ticks, 32), 16))
        time_high_and_version == BitOr(AsU16(AndLow(Shr(ticks, 48), 12)), 4096)
        d4 == ClockSeqAndNode(counter, node_id)
    IN  Builder_from_fields(time_low, time_mid, time_high_and_version, d4)

\* from_sorted_rfc4122_timestamp taking time_mid from bit 16 instead of bit 12
Builder_from_sorted_rfc4122_timestamp_MidShift(ticks, counter, node_id) ==
    LET time_high == AsU32(AndLow(Shr(ticks, 28), 32))
        time_mid == AsU16(AndLow(Shr(ticks, 16), 16))
        time_low_and_version == BitOr(AsU16(AndLow(ticks, 12)), 24576)
        d4 == ClockSeqAndNode(counter, node_id)
    IN  Builder_from_fields(time_high, time_mid, time_low_and_version, d4)

\* from_sorted_rfc4122_timestamp laying the ticks out low bits first, as version 1 does
Builder_from_sorted_rfc4122_timestamp_LowFirst(ticks, counter, node_id) ==
    LET time_high == AsU32(AndLow(ticks, 32))
        time_mid == AsU16(AndLow(Shr(ticks, 32), 16))
        time_low_and_version == BitOr(AsU16(AndLow(Shr(ticks, 48), 12)), 24576)
        d4 == ClockSeqAndNode(counter, node_id)
    IN  Builder_from_fields(time_high, time_mid, time_low_and_version, d4)

Builder_from_sorted_rfc4122_timestamp(ticks, counter, node_id) ==
    LET time_high == AsU32(AndLow(Shr(ticks, 28), 32))
        time_mid == AsU16(AndLow(Shr(ticks, 12), 16))
        time_low_and_version == BitOr(AsU16(AndLow(ticks, 12)), 24576)
        d4 == ClockSeqAndNode(counter, node_id)
    IN  Builder_from_fields(time_high, time_mid, time_low_and_version, d4)

\* v * m + a over n digits, m and a small: digit by digit with a carry
MulAdd(v, m, a, n) ==
    LET carry[i \in 0..n] ==
            IF i = 0 THEN a ELSE (Digit(v, i - 1) * m + carry[i - 1]) \div 16
    IN  [i \in 0..(n - 1) |-> (Digit(v, i) * m + carry[i]) % 16]

\* Duration::as_millis: secs * 1000 + nanos / 1_000_000, a u128
Duration_as_millis(d) == MulAdd(d.secs, 1000, d.nanos \div 1000000, 32)

\* ms_high taken from bits 32..63 of the count
Builder_from_timestamp_millis_HighShift(since_unix_epoch, random_bytes) ==
    LET millis == AsU64(Duration_as_millis(since_unix_epoch))
        ms_high == AsU32(AndLow(Shr(millis, 32), 32))
        ms_low == AsU16(AndLow(millis, 16))
        rng_ver == BitOr(BitOr(random_bytes[1], random_bytes[2] * 256), 28672)
        rng_rest == << BitOr(BitAnd(random_bytes[3], 63), 128),
                       random_bytes[4], random_bytes[5], random_bytes[6],
                       random_bytes[7], random_bytes[8], random_bytes[9],
                       random_bytes[10] >>
    IN  Builder_from_fields(ms_high, ms_low, rng_ver, rng_rest)

Builder_from_timestamp_millis(since_unix_epoch, random_bytes) ==
    LET millis == AsU64(Duration_as_millis(since_unix_epoch))
        ms_high == AsU32(AndLow(Shr(millis, 16), 32))
        ms_low == AsU16(AndLow(millis, 16))
        rng_ver == BitOr(BitOr(random_bytes[1], random_bytes[2] * 256), 28672)
        rng_rest == << BitOr(BitAnd(random_bytes[3], 63), 128),
                       random_bytes[4], random_bytes[5], random_bytes[6],
                       random_bytes[7], random_bytes[8], random_bytes[9],
                       random_bytes[10] >>
    IN  Builder_from_fields(ms_high, ms_low, rng_ver, rng_rest)

Builder_from_custom_bytes(b) ==
    Builder_with_version(Builder_with_variant(Builder_from_bytes(b), "RFC4122"), "Custom")

Builder_from_random_bytes(b) ==
    Builder_with_version(Builder_with_variant(Builder(Uuid_from_bytes(b)), "RFC4122"), "Random")

\* from_md5_bytes stamping the SHA-1 version
Builder_from_md5_bytes_Sha1(b) ==
    Builder_with_version(Builder_with_variant(Builder(Uuid_from_bytes(b)), "RFC4122"), "Sha1")

Builder_from_md5_bytes(b) ==
    Builder_with_version(Builder_with_variant(Builder(Uuid_from_bytes(b)), "RFC4122"), "Md5")

Builder_from_sha1_bytes(b) ==
    Builder_with_version(Builder_with_variant(Builder(Uuid_from_bytes(b)), "RFC4122"), "Sha1")

(***************************************************************************)
(* Inputs.  16-byte arrays: all zero, all one, the arrays of the doc tests *)
(* and generated patterns; the arguments of the other constructors are cut *)
(* out of them.                                                            *)
(***************************************************************************)
Zeros == [i \in 1..16 |-> 0]

Ones == [i \in 1..16 |-> 255]

DocBytes == <<161, 162, 163, 164, 177, 178, 193, 194, 209, 210, 211, 212, 213, 214, 215, 216>>

RngBytes == <<70, 235, 208, 238, 14, 109, 67, 201, 185, 13, 204, 195, 90, 145, 63, 62>>

Pattern(k) == [i \in 1..16 |-> (173 * k + (16 * k + 1) * (i - 1)) % 256]

Bytes16Samples == {Zeros, Ones, DocBytes, RngBytes} \cup {Pattern(k) : k \in 1..NumPatterns}

\* the unsigned integer whose big-endian bytes are bs, as a vector of 4-bit digits
WideOfBE(bs) ==
    [i \in 0..(2 * Len(bs) - 1) |->
        LET byte == bs[Len(bs) - (i \div 2)]
        IN  IF i % 2 = 0 THEN byte % 16 ELSE byte \div 16]

U32Samples == {WideOfBE(SubSeq(b, 1, 4)) : b \in Bytes16Samples}

U16Samples == {b[i] * 256 + b[i + 1] : b \in Bytes16Samples, i \in {5, 7}}

Tail8Samples == {SubSeq(b, 9, 16) : b \in Bytes16Samples}

U64Samples == {WideOfBE(SubSeq(b, 1, 8)) : b \in Bytes16Samples}

U128Samples == {WideOfBE(b) : b \in Bytes16Samples}

NodeIdSamples == {SubSeq(b, 11, 16) : b \in Bytes16Samples}

Random11Samples == {SubSeq(b, 1, 11) : b \in Bytes16Samples}

NanosSamples == {0, 999999, 1000000, 999999999}

DurationSamples == [secs : U64Samples, nanos : NanosSamples]

\* slices of every length 0..MaxSliceLen
SliceSamples == {SubSeq(b \o b, 1, n) : b \in Bytes16Samples, n \in 0..MaxSliceLen}

(***************************************************************************)
(* The codec as a state machine: a caller invokes one constructor with     *)
(* inputs of its choice (call), gets the result (ret), and drops it.       *)
(***************************************************************************)
Idle == [fn |-> "idle"]

Return ==
    /\ call # Idle
    /\ call' = Idle
    /\ ret' = <<>>
    /\ UNCHANGED <<builder, origin, log>>

CallUuidNil ==
    /\ call = Idle
    /\ call' = [fn |-> "Uuid::nil"]
    /\ ret' = Uuid_nil
    /\ UNCHANGED <<builder, origin, log>>

CallUuidMax ==
    /\ call = Idle
    /\ call' = [fn |-> "Uuid::max"]
    /\ ret' = Uuid_max
    /\ UNCHANGED <<builder, origin, log>>

CallBuilderNil ==
    /\ call = Idle
    /\ call' = [fn |-> "Builder::nil"]
    /\ ret' = Builder_nil
    /\ UNCHANGED <<builder, origin, log>>

CallUuidFromBytes ==
    /\ call = Idle
    /\ \E b \in Bytes16Samples :
        /\ call' = [fn |-> "Uuid::from_bytes", b |-> b]
        /\ ret' = Uuid_from_bytes(b)
    /\ UNCHANGED <<builder, origin, log>>

CallUuidFromBytesLe ==
    /\ call = Idle
    /\ \E b \in Bytes16Samples :
        /\ call' = [fn |-> "Uuid::from_bytes_le", b |-> b]
        /\ ret' = Uuid_from_bytes_le(b)
    /\ UNCHANGED <<builder, origin, log>>

CallBuilderFromBytes ==
    /\ call = Idle
    /\ \E b \in Bytes16Samples :
        /\ call' = [fn |-> "Builder::from_bytes", b |-> b]
        /\ ret' = Builder_from_bytes(b)
    /\ UNCHANGED <<builder, origin, log>>

CallBuilderFromBytesLe ==
    /\ call = Idle
    /\ \E b \in Bytes16Samples :
        /\ call' = [fn |-> "Builder::from_bytes_le", b |-> b]
        /\ ret' = Builder_from_bytes_le(b)
    /\ UNCHANGED <<builder, origin, log>>

CallUuidFromFields ==
    /\ call = Idle
    /\ \E d1 \in U32Samples, d2 \in U16Samples, d3 \in U16Samples, d4 \in Tail8Samples :
        /\ call' = [fn |-> "Uuid::from_fields", d1 |-> d1, d2 |-> d2, d3 |-> d3, d4 |-> d4]
        /\ ret' = Uuid_from_fields(d1, d2, d3, d4)
    /\ UNCHANGED <<builder, origin, log>>

CallUuidFromFieldsLe ==
    /\ call = Idle
    /\ \E d1 \in U32Samples, d2 \in U16Samples, d3 \in U16Samples, d4 \in Tail8Samples :
        /\ call' = [fn |-> "Uuid::from_fields_le", d1 |-> d1, d2 |-> d2, d3 |-> d3, d4 |-> d4]
        /\ ret' = Uuid_from_fields_le(d1, d2, d3, d4)
    /\ UNCHANGED <<builder, origin, log>>

CallBuilderFromFields ==
    /\ call = Idle
    /\ \E d1 \in U32Samples, d2 \in U16Samples, d3 \in U16Samples, d4 \in Tail8Samples :
        /\ call' = [fn |-> "Builder::from_fields", d1 |-> d1, d2 |-> d2, d3 |-> d3, d4 |-> d4]
        /\ ret' = Builder_from_fields(d1, d2, d3, d4)
    /\ UNCHANGED <<builder, origin, log>>

CallBuilderFromFieldsLe ==
    /\ call = Idle
    /\ \E d1 \in U32Samples, d2 \in U16Samples, d3 \in U16Samples, d4 \in Tail8Samples :
        /\ call' = [fn |-> "Builder::from_fields_le",
                    d1 |-> d1, d2 |-> d2, d3 |-> d3, d4 |-> d4]
        /\ ret' = Builder_from_fields_le(d1, d2, d3, d4)
    /\ UNCHANGED <<builder, origin, log>>

CallUuidFromU128 ==
    /\ call = Idle
    /\ \E v \in U128Samples :
        /\ call' = [fn |-> "Uuid::from_u128", v |-> v]
        /\ ret' = Uuid_from_u128(v)
    /\ UNCHANGED <<builder, origin, log>>

CallUuidFromU128Le ==
    /\ call = Idle
    /\ \E v \in U128Samples :
        /\ call' = [fn |-> "Uuid::from_u128_le", v |-> v]
        /\ ret' = Uuid_from_u128_le(v)
    /\ UNCHANGED <<builder, origin, log>>

CallBuilderFromU128 ==
    /\ call = Idle
    /\ \E v \in U128Samples :
        /\ call' = [fn |-> "Builder::from_u128", v |-> v]
        /\ ret' = Builder_from_u128(v)
    /\ UNCHANGED <<builder, origin, log>>

CallBuilderFromU128Le ==
    /\ call = Idle
    /\ \E v \in U128Samples :
        /\ call' = [fn |-> "Builder::from_u128_le", v |-> v]
        /\ ret' = Builder_from_u128_le(v)
    /\ UNCHANGED <<builder, origin, log>>

CallUuidFromU64Pair ==
    /\ call = Idle
    /\ \E high_bits \in U64Samples, low_bits \in U64Samples :
        /\ call' = [fn |-> "Uuid::from_u64_pair",
                    high_bits |-> high_bits, low_bits |-> low_bits]
        /\ ret' = Uuid_from_u64_pair(high_bits, low_bits)
    /\ UNCHANGED <<builder, origin, log>>

CallUuidFromSlice ==
    /\ call = Idle
    /\ \E b \in SliceSamples :
        /\ call' = [fn |-> "Uuid::from_slice", b |-> b]
        /\ ret' = Uuid_from_slice(b)
    /\ UNCHANGED <<builder, origin, log>>

CallUuidFromSliceLe ==
    /\ call = Idle
    /\ \E b \in SliceSamples :
        /\ call' = [fn |-> "Uuid::from_slice_le", b |-> b]
        /\ ret' = Uuid_from_slice_le(b)
    /\ UNCHANGED <<builder, origin, log>>

CallBuilderFromSlice ==
    /\ call = Idle
    /\ \E b \in SliceSamples :
        /\ call' = [fn |-> "Builder::from_slice", b |-> b]
        /\ ret' = Builder_from_slice(b)
    /\ UNCHANGED <<builder, origin, log>>

CallBuilderFromSliceLe ==
    /\ call = Idle
    /\ \E b \in SliceSamples :
        /\ call' = [fn |-> "Builder::from_slice_le", b |-> b]
        /\ ret' = Builder_from_slice_le(b)
    /\ UNCHANGED <<builder, origin, log>>

CallFromRfc4122Timestamp ==
    /\ call = Idle
    /\ \E ticks \in U64Samples, counter \in U16Samples, node_id \in NodeIdSamples :
        /\ call' = [fn |-> "Builder::from_rfc4122_timestamp",
                    ticks |-> ticks, counter |-> counter, node_id |-> node_id]
        /\ ret' = Builder_from_rfc4122_timestamp(ticks, counter, node_id)
    /\ UNCHANGED <<builder, origin, log>>

CallFromSortedRfc4122Timestamp ==
    /\ call = Idle
    /\ \E ticks \in U64Samples, counter \in U16Samples, node_id \in NodeIdSamples :
        /\ call' = [fn |-> "Builder::from_sorted_rfc4122_timestamp",
                    ticks |-> ticks, counter |-> counter, node_id |-> node_id]
        /\ ret' = Builder_from_sorted_rfc4122_timestamp(ticks, counter, node_id)
    /\ UNCHANGED <<builder, origin, log>>

CallFromTimestampMillis ==
    /\ call = Idle
    /\ \E since_unix_epoch \in DurationSamples, random_bytes \in Random11Samples :
        /\ call' = [fn |-> "Builder::from_timestamp_millis",
                    since_unix_epoch |-> since_unix_epoch, random_bytes |-> random_bytes]
        /\ ret' = Builder_from_timestamp_millis(since_unix_epoch, random_bytes)
    /\ UNCHANGED <<builder, origin, log>>

CallFromCustomBytes ==
    /\ call = Idle
    /\ \E b \in Bytes16Samples :
        /\ call' = [fn |-> "Builder::from_custom_bytes", b |-> b]
        /\ ret' = Builder_from_custom_bytes(b)
    /\ UNCHANGED <<builder, origin, log>>

CallFromRandomBytes ==
    /\ call = Idle
    /\ \E b \in Bytes16Samples :
        /\ call' = [fn |-> "Builder::from_random_bytes", b |-> b]
        /\ ret' = Builder_from_random_bytes(b)
    /\ UNCHANGED <<builder, origin, log>>

CallFromMd5Bytes ==
    /\ call = Idle
    /\ \E b \in Bytes16Samples :
        /\ call' = [fn |-> "Builder::from_md5_bytes", b |-> b]
        /\ ret' = Builder_from_md5_bytes(b)
    /\ UNCHANGED <<builder, origin, log>>

CallFromSha1Bytes ==
    /\ call = Idle
    /\ \E b \in Bytes16Samples :
        /\ call' = [fn |-> "Builder::from_sha1_bytes", b |-> b]
        /\ ret' = Builder_from_sha1_bytes(b)
    /\ UNCHANGED <<builder, origin, log>>

InitCodec ==
    /\ call = Idle
    /\ ret = <<>>
    /\ builder = Builder_nil
    /\ origin = Builder_nil
    /\ log = <<>>

NextCodec ==
    \/ CallUuidNil
    \/ CallUuidMax
    \/ CallBuilderNil
    \/ CallUuidFromBytes
    \/ CallUuidFromBytesLe
    \/ CallBuilderFromBytes
    \/ CallBuilderFromBytesLe
    \/ CallUuidFromFields
    \/ CallUuidFromFieldsLe
    \/ CallBuilderFromFields
    \/ CallBuilderFromFieldsLe
    \/ CallUuidFromU128
    \/ CallUuidFromU128Le
    \/ CallBuilderFromU128
    \/ CallBuilderFromU128Le
    \/ CallUuidFromU64Pair
    \/ CallUuidFromSlice
    \/ CallUuidFromSliceLe
    \/ CallBuilderFromSlice
    \/ CallBuilderFromSliceLe
    \/ CallFromRfc4122Timestamp
    \/ CallFromSortedRfc4122Timestamp
    \/ CallFromTimestampMillis
    \/ CallFromCustomBytes
    \/ CallFromRandomBytes
    \/ CallFromMd5Bytes
    \/ CallFromSha1Bytes
    \/ Return

SpecCodec == InitCodec /\ [][NextCodec]_vars

(***************************************************************************)
(* The builder as a state machine: one builder, staged from 16 bytes, is   *)
(* stamped with versions and variants through the in-place (set_) and the  *)
(* consuming (with_) methods.  origin is the value it was created with;    *)
(* log records each stamp with the value it was applied to; call is the    *)
(* method called last and ret what it handed back.                         *)
(***************************************************************************)
SetVariant ==
    /\ Len(log) < MaxStamps
    /\ \E v \in Variant :
        /\ builder' = Builder_set_variant(builder, v)
        /\ log' = Append(log, [kind |-> "variant", v |-> v, pre |-> builder])
        /\ call' = [fn |-> "Builder::set_variant", v |-> v]
    /\ ret' = builder'
    /\ UNCHANGED origin

WithVariant ==
    /\ Len(log) < MaxStamps
    /\ \E v \in Variant :
        /\ builder' = Builder_with_variant(builder, v)
        /\ log' = Append(log, [kind |-> "variant", v |-> v, pre |-> builder])
        /\ call' = [fn |-> "Builder::with_variant", v |-> v]
    /\ ret' = builder'
    /\ UNCHANGED origin

SetVersion ==
    /\ Len(log) < MaxStamps
    /\ \E v \in Version :
        /\ builder' = Builder_set_version(builder, v)
        /\ log' = Append(log, [kind |-> "version", v |-> v, pre |-> builder])
        /\ call' = [fn |-> "Builder::set_version", v |-> v]
    /\ ret' = builder'
    /\ UNCHANGED origin

WithVersion ==
    /\ Len(log) < MaxStamps
    /\ \E v \in Version :
        /\ builder' = Builder_with_version(builder, v)
        /\ log' = Append(log, [kind |-> "version", v |-> v, pre |-> builder])
        /\ call' = [fn |-> "Builder::with_version", v |-> v]
    /\ ret' = builder'
    /\ UNCHANGED origin

Init ==
    \E b \in Bytes16Samples :
        /\ builder = Builder_from_bytes(b)
        /\ origin = builder
        /\ log = <<>>
        /\ call = [fn |-> "Builder::from_bytes", b |-> b]
        /\ ret = builder

Next ==
    \/ SetVariant
    \/ WithVariant
    \/ SetVersion
    \/ WithVersion

Spec == Init /\ [][Next]_vars

(***************************************************************************)
(* A generator of version-6 values: from_sorted_rfc4122_timestamp is       *)
(* called up to MaxIssued times, with ticks on both sides of the field     *)
(* boundaries (bits 8, 12, 28, 32) and of 2^60; log keeps each call's      *)
(* arguments with the value built.                                         *)
(***************************************************************************)
\* number of version-6 values issued in a row
MaxIssued == 2

\* 2^(4n) - 1 and 2^(4n) as 64-bit integers
TicksAllOnesBelow(n) == [i \in 0..15 |-> IF i < n THEN 15 ELSE 0]

TicksPowerOf16(n) == [i \in 0..15 |-> IF i = n THEN 1 ELSE 0]

TicksSamples ==
    {TicksAllOnesBelow(n) : n \in {0, 2, 3, 7, 8, 15, 16}}
        \cup {TicksPowerOf16(n) : n \in {0, 2, 3, 7, 8, 15}}

CounterSamples == {0, 16383, 65535}

NodeIdEdgeSamples == {<<0, 0, 0, 0, 0, 0>>, <<255, 255, 255, 255, 255, 255>>}

IssueSorted ==
    /\ Len(log) < MaxIssued
    /\ \E ticks \in TicksSamples, counter \in CounterSamples, node_id \in NodeIdEdgeSamples :
        /\ call' = [fn |-> "Builder::from_sorted_rfc4122_timestamp",
                    ticks |-> ticks, counter |-> counter, node_id |-> node_id]
        /\ ret' = Builder_from_sorted_rfc4122_timestamp(ticks, counter, node_id)
    /\ log' = Append(log, [ticks |-> call'.ticks, value |-> Builder_into_uuid(ret')])
    /\ UNCHANGED <<builder, origin>>

InitSorted == InitCodec

NextSorted == IssueSorted

SpecSorted == InitSorted /\ [][NextSorted]_vars

(***************************************************************************)
(* Staging.  One Builder constructor is called with some arguments and the *)
(* value it holds is driven twice through the same stamps: builder in      *)
(* place (set_variant, set_version), ret by value (with_variant,           *)
(* with_version, each call consuming the builder the previous one          *)
(* returned).  origin is what the Uuid constructor of the same name gives  *)
(* on the same arguments.  as_uuid borrows builder, into_uuid consumes it, *)
(* after which nothing more is called; log keeps every call with the       *)
(* builder it was made on (pre) and the value it returned (out).           *)
(***************************************************************************)
\* number of calls made on a staged builder
MaxSteps == 3

\* the constructors Builder shares with Uuid, on arguments cut out of b
StagedConstructors(b) ==
    LET d1 == WideOfBE(SubSeq(b, 1, 4))
        d2 == b[5] * 256 + b[6]
        d3 == b[7] * 256 + b[8]
        d4 == SubSeq(b, 9, 16)
        v == WideOfBE(b)
    IN  { [call |-> [fn |-> "Builder::from_bytes", b |-> b],
           staged |-> Builder_from_bytes(b), direct |-> Uuid_from_bytes(b)],
          [call |-> [fn |-> "Builder::from_bytes_le", b |-> b],
           staged |-> Builder_from_bytes_le(b), direct |-> Uuid_from_bytes_le(b)],
          [call |-> [fn |-> "Builder::from_fields", d1 |-> d1, d2 |-> d2, d3 |-> d3, d4 |-> d4],
           staged |-> Builder_from_fields(d1, d2, d3, d4),
           direct |-> Uuid_from_fields(d1, d2, d3, d4)],
          [call |-> [fn |-> "Builder::from_fields_le", d1 |-> d1, d2 |-> d2, d3 |-> d3, d4 |-> d4],
           staged |-> Builder_from_fields_le(d1, d2, d3, d4),
           direct |-> Uuid_from_fields_le(d1, d2, d3, d4)],
          [call |-> [fn |-> "Builder::from_u128", v |-> v],
           staged |-> Builder_from_u128(v), direct |-> Uuid_from_u128(v)],
          [call |-> [fn |-> "Builder::from_u128_le", v |-> v],
           staged |-> Builder_from_u128_le(v), direct |-> Uuid_from_u128_le(v)],
          [call |-> [fn |-> "Builder::nil"],
           staged |-> Builder_nil, direct |-> Uuid_nil] }

StageVariant ==
    /\ Len(log) < MaxSteps
    /\ call.fn # "Builder::into_uuid"
    /\ \E v \in Variant :
        /\ builder' = Builder_set_variant(builder, v)
        /\ ret' = Builder_with_variant(ret, v)
        /\ call' = [fn |-> "Builder::set_variant", v |-> v]
    /\ log' = Append(log, [kind |-> "variant", pre |-> builder, out |-> builder'])
    /\ UNCHANGED origin

StageVersion ==
    /\ Len(log) < MaxSteps
    /\ call.fn # "Builder::into_uuid"
    /\ \E v \in Version :
        /\ builder' = Builder_set_version(builder, v)
        /\ ret' = Builder_with_version(ret, v)
        /\ call' = [fn |-> "Builder::set_version", v |-> v]
    /\ log' = Append(log, [kind |-> "version", pre |-> builder, out |-> builder'])
    /\ UNCHANGED origin

AsUuid ==
    /\ Len(log) < MaxSteps
    /\ call.fn # "Builder::into_uuid"
    /\ call' = [fn |-> "Builder::as_uuid"]
    /\ log' = Append(log, [kind |-> "as_uuid", pre |-> builder, out |-> Builder_as_uuid(builder)])
    /\ UNCHANGED <<builder, ret, origin>>

IntoUuid ==
    /\ Len(log) < MaxSteps
    /\ call.fn # "Builder::into_uuid"
    /\ call' = [fn |-> "Builder::into_uuid"]
    /\ log' = Append(log, [kind |-> "into_uuid", pre |-> builder, out |-> Builder_into_uuid(builder)])
    /\ UNCHANGED <<builder, ret, origin>>

InitStaging ==
    \E b \in Bytes16Samples :
        \E c \in StagedConstructors(b) :
            /\ call = c.call
            /\ builder = c.staged
            /\ ret = c.staged
            /\ origin = c.direct
            /\ log = <<>>

NextStaging ==
    \/ StageVariant
    \/ StageVersion
    \/ AsUuid
    \/ IntoUuid

SpecStaging == InitStaging /\ [][NextStaging]_vars

(***************************************************************************)
(* Vocabulary of the properties, defined apart from the operations above.  *)
(***************************************************************************)
\* byte i of a 16-byte value, i counted from 0 as in the source and the RFC
At(b, i) == b[i + 1]

RevSeq(s) == [i \in 1..Len(s) |-> s[Len(s) + 1 - i]]

\* big-endian serialization: of a wide integer, and of a u16
BE(v) ==
    LET n == Cardinality(DOMAIN v)
    IN  [j \in 1..(n \div 2) |-> 16 * v[n - 2 * j + 1] + v[n - 2 * j]]

BE16(x) == <<x \div 256, x % 256>>

\* v div 2^64 and v mod 2^64 of a 128-bit v
High64(v) == [i \in 0..15 |-> v[i + 16]]

Low64(v) == [i \in 0..15 |-> v[i]]

\* reverses the bytes within positions 0-3, 4-5 and 6-7, leaves 8-15
Swap3Fields(b) ==
    RevSeq(SubSeq(b, 1, 4)) \o RevSeq(SubSeq(b, 5, 6)) \o RevSeq(SubSeq(b, 7, 8))
        \o SubSeq(b, 9, 16)

\* bit k of a wide integer, and the number made of its bits lo..lo+n-1
BitOf(v, k) == (Digit(v, k \div 4) \div (2 ^ (k % 4))) % 2

RECURSIVE BitsOf(_, _, _)
BitsOf(v, lo, n) == IF n = 0 THEN 0 ELSE BitOf(v, lo) + 2 * BitsOf(v, lo + 1, n - 1)

\* the top n bits and the low n bits of a byte
TopBits(x, n) == x \div (2 ^ (8 - n))

LowBits(x, n) == x % (2 ^ n)

SliceFns ==
    {"Uuid::from_slice", "Uuid::from_slice_le", "Builder::from_slice", "Builder::from_slice_le"}

(***************************************************************************)
(* C1.  from_slice and from_slice_le, of Uuid and of Builder, fail with    *)
(* the length-mismatch error carrying exactly len(b) whenever len(b) # 16, *)
(* producing no value; when len(b) = 16 they succeed, from_slice with the  *)
(* bytes copied verbatim, from_slice_le with the bytes from_bytes_le gives.*)
(***************************************************************************)
C1_SliceLength ==
    call.fn \in SliceFns =>
        IF Len(call.b) # 16
        THEN ret = [ok |-> FALSE, kind |-> "ByteLength", len |-> Len(call.b)]
        ELSE /\ ret.ok
             /\ call.fn \in {"Uuid::from_slice", "Builder::from_slice"} => ret.value = call.b
             /\ call.fn \in {"Uuid::from_slice_le", "Builder::from_slice_le"} =>
                    ret.value = Uuid_from_bytes_le(call.b)

C1_Witness ==
    /\ call.fn = "Builder::from_slice_le"
    /\ Len(call.b) = 17
    /\ ~ret.ok
    /\ ret.len = 17

(***************************************************************************)
(* C2.  The big-endian constructors agree on one layout: from_fields has   *)
(* bytes be(d1) ++ be(d2) ++ be(d3) ++ d4; for the 128-bit v with those    *)
(* big-endian bytes, from_u128(v) and from_u64_pair(v div 2^64,            *)
(* v mod 2^64) give the same bytes as from_bytes of them, and              *)
(* from_u128_le(v) gives them fully reversed.                              *)
(***************************************************************************)
C2_BigEndianLayout ==
    /\ call.fn = "Uuid::from_fields" =>
          LET bytes == BE(call.d1) \o BE16(call.d2) \o BE16(call.d3) \o call.d4
              v == WideOfBE(bytes)
          IN  /\ ret = bytes
              /\ Uuid_from_u128(v) = Uuid_from_bytes(bytes)
              /\ Uuid_from_u64_pair(High64(v), Low64(v)) = Uuid_from_bytes(bytes)
              /\ Uuid_from_u128_le(v) = RevSeq(bytes)
    /\ call.fn = "Uuid::from_u128" => ret = Uuid_from_bytes(BE(call.v))
    /\ call.fn = "Uuid::from_u128_le" => ret = RevSeq(BE(call.v))
    /\ call.fn = "Uuid::from_u64_pair" => ret = BE(call.high_bits) \o BE(call.low_bits)

C2_Witness ==
    /\ call.fn = "Uuid::from_fields"
    /\ BE(call.d1) = <<161, 162, 163, 164>>
    /\ call.d2 = 45490
    /\ call.d3 = 49602
    /\ call.d4 = <<209, 210, 211, 212, 213, 214, 215, 216>>
    /\ ret = DocBytes

(***************************************************************************)
(* C3.  Endian duality: from_bytes_le(b) = from_bytes(swap3Fields(b));     *)
(* from_fields_le(d1, d2, d3, d4) = from_bytes_le of the bytes of          *)
(* from_fields(d1, d2, d3, d4); from_bytes_le applied twice returns b.     *)
(***************************************************************************)
C3_EndianDuality ==
    /\ call.fn = "Uuid::from_bytes_le" =>
          /\ ret = Uuid_from_bytes(Swap3Fields(call.b))
          /\ Uuid_from_bytes_le(ret) = call.b
    /\ call.fn = "Uuid::from_fields_le" =>
          ret = Uuid_from_bytes_le(Uuid_from_fields(call.d1, call.d2, call.d3, call.d4))

C3_Witness ==
    /\ call.fn = "Uuid::from_bytes_le"
    /\ call.b = DocBytes
    /\ ret = <<164, 163, 162, 161, 178, 177, 194, 193, 209, 210, 211, 212, 213, 214, 215, 216>>

(***************************************************************************)
(* The variant table: how many top bits of byte 8 a variant marker takes   *)
(* and the pattern it writes there.                                        *)
(***************************************************************************)
MarkerWidth(v) ==
    CASE v = "NCS" -> 1
      [] v = "RFC4122" -> 2
      [] v = "Microsoft" -> 3
      [] v = "Future" -> 3

\* 0, 10, 110, 111
MarkerPattern(v) ==
    CASE v = "NCS" -> 0
      [] v = "RFC4122" -> 2
      [] v = "Microsoft" -> 6
      [] v = "Future" -> 7

\* the stamps of one kind in the log, in order
StampsOf(kind) == SelectSeq(log, LAMBDA e : e.kind = kind)

LastStamp == log[Len(log)]

(***************************************************************************)
(* C4.  Stamping never touches bits outside the markers: after any         *)
(* sequence of version and variant stamps the 14 bytes other than bytes 6  *)
(* and 8, the low nibble of byte 6 and the low 5 bits of byte 8 equal      *)
(* their initial values; one version stamp changes at most the top nibble  *)
(* of byte 6 and one variant stamp at most the top 1 (NCS), 2 (RFC4122)    *)
(* or 3 (Microsoft, Future) bits of byte 8.                                *)
(***************************************************************************)
C4_StampFrame ==
    /\ \A i \in 0..15 : i \notin {6, 8} => At(builder, i) = At(origin, i)
    /\ LowBits(At(builder, 6), 4) = LowBits(At(origin, 6), 4)
    /\ LowBits(At(builder, 8), 5) = LowBits(At(origin, 8), 5)
    /\ log # <<>> =>
          LET pre == LastStamp.pre
              v == LastStamp.v
          IN  /\ LastStamp.kind = "version" =>
                    /\ \A i \in 0..15 : i # 6 => At(builder, i) = At(pre, i)
                    /\ LowBits(At(builder, 6), 4) = LowBits(At(pre, 6), 4)
              /\ LastStamp.kind = "variant" =>
                    /\ \A i \in 0..15 : i # 8 => At(builder, i) = At(pre, i)
                    /\ LowBits(At(builder, 8), 8 - MarkerWidth(v))
                          = LowBits(At(pre, 8), 8 - MarkerWidth(v))

C4_Witness ==
    /\ Len(log) = 3
    /\ log[1].kind = "variant"
    /\ log[2].kind = "version"
    /\ log[3].kind = "variant"
    /\ At(builder, 6) # At(origin, 6)
    /\ At(builder, 8) # At(origin, 8)
    /\ At(builder, 8) # At(LastStamp.pre, 8)

(***************************************************************************)
(* C5.  Last write wins: after any interleaving of version and variant     *)
(* stamps, the top nibble of byte 6 is the low 4 bits of the number of the *)
(* most recent version stamp (if any), and the top bits of byte 8 read as  *)
(* the pattern of the most recent variant stamp (if any), whatever stamps  *)
(* of the other kind came before or after.                                 *)
(***************************************************************************)
C5_LastWriteWins ==
    LET versions == StampsOf("version")
        variants == StampsOf("variant")
    IN  /\ versions # <<>> =>
              TopBits(At(builder, 6), 4) = VersionAsU8(versions[Len(versions)].v) % 16
        /\ variants # <<>> =>
              LET last == variants[Len(variants)].v
              IN  TopBits(At(builder, 8), MarkerWidth(last)) = MarkerPattern(last)

C5_Witness ==
    /\ Len(log) = 3
    /\ log[1].kind = "version"
    /\ log[2].kind = "variant"
    /\ log[3].kind = "version"
    /\ log[1].v = "Max"
    /\ log[2].v = "RFC4122"
    /\ log[3].v = "Sha1"
    /\ origin = DocBytes
    /\ At(log[2].pre, 6) = 241
    /\ At(builder, 6) = 81
    /\ At(builder, 8) = 145

(***************************************************************************)
(* C6.  As claimed: for every value u and variants a and b, with_variant(a)*)
(* followed by with_variant(b) on u gives byte for byte what               *)
(* with_variant(b) gives on u alone.                                       *)
(***************************************************************************)
TwoVariantStamps ==
    /\ Len(log) >= 2
    /\ log[Len(log) - 1].kind = "variant"
    /\ log[Len(log)].kind = "variant"

C6_EarlierVariantLeavesNoTrace ==
    TwoVariantStamps =>
        builder = Builder_with_variant(log[Len(log) - 1].pre, LastStamp.v)

(***************************************************************************)
(* C6, amended.  with_variant(a) followed by with_variant(b) on u equals   *)
(* with_variant(b) on u alone when a's marker is no wider than b's (so     *)
(* with_variant is idempotent); when a's marker is wider, the two agree    *)
(* except in the bits of byte 8 that a's marker covers and b's does not,   *)
(* which keep the bits a wrote there.                                      *)
(***************************************************************************)
C6_VariantThenVariant ==
    TwoVariantStamps =>
        LET u == log[Len(log) - 1].pre
            a == log[Len(log) - 1].v
            b == LastStamp.v
            wa == MarkerWidth(a)
            wb == MarkerWidth(b)
            alone == Builder_with_variant(u, b)
        IN  /\ wa <= wb => builder = alone
            /\ wa > wb =>
                  /\ \A i \in 0..15 : i # 8 => At(builder, i) = At(alone, i)
                  /\ TopBits(At(builder, 8), wb) = TopBits(At(alone, 8), wb)
                  /\ TopBits(At(builder, 8), wb) = MarkerPattern(b)
                  /\ LowBits(At(builder, 8), 8 - wa) = LowBits(At(alone, 8), 8 - wa)
                  /\ LowBits(TopBits(At(builder, 8), wa), wa - wb)
                        = LowBits(MarkerPattern(a), wa - wb)

C6_Witness ==
    /\ Len(log) = 2
    /\ log[1].kind = "variant"
    /\ log[2].kind = "variant"
    /\ log[1].v = "Future"
    /\ log[2].v = "NCS"
    /\ At(origin, 8) = 0
    /\ At(builder, 8) = 96
    /\ At(Builder_with_variant(origin, "NCS"), 8) = 0

(***************************************************************************)
(* C7.  For every duration and every 11 random bytes, the value built by   *)
(* from_timestamp_millis has the top 4 bits of byte 6 equal to 7 and the   *)
(* top 2 bits of byte 8 equal to 10.                                       *)
(***************************************************************************)
C7_Version7Markers ==
    call.fn = "Builder::from_timestamp_millis" =>
        /\ TopBits(At(ret, 6), 4) = 7
        /\ TopBits(At(ret, 8), 2) = 2

(***************************************************************************)
(* C8.  from_random_bytes, from_md5_bytes, from_sha1_bytes and             *)
(* from_custom_bytes give a value equal to b in every bit except that the  *)
(* top nibble of byte 6 is 4, 3, 5 and 8 respectively and the top two bits *)
(* of byte 8 are 10.                                                       *)
(***************************************************************************)
StampedBytes(b, version) ==
    [i \in 1..16 |->
        IF i - 1 = 6 THEN 16 * version + LowBits(b[i], 4)
        ELSE IF i - 1 = 8 THEN 128 + LowBits(b[i], 6)
        ELSE b[i]]

C8_StampedConstructors ==
    /\ call.fn = "Builder::from_random_bytes" => ret = StampedBytes(call.b, 4)
    /\ call.fn = "Builder::from_md5_bytes" => ret = StampedBytes(call.b, 3)
    /\ call.fn = "Builder::from_sha1_bytes" => ret = StampedBytes(call.b, 5)
    /\ call.fn = "Builder::from_custom_bytes" => ret = StampedBytes(call.b, 8)

C8_Witness ==
    /\ call.fn = "Builder::from_custom_bytes"
    /\ call.b = Ones
    /\ At(ret, 6) = 143
    /\ At(ret, 8) = 191
    /\ At(ret, 7) = 255

(***************************************************************************)
(* C9.  Version-1 layout: from_rfc4122_timestamp yields bytes 0-3 = ticks  *)
(* bits 0..31 big-endian, bytes 4-5 = ticks bits 32..47 big-endian,        *)
(* byte 6 = 0x10 | ticks bits 56..59, byte 7 = ticks bits 48..55,          *)
(* byte 8 = 0x80 | counter bits 8..13, byte 9 = counter bits 0..7,         *)
(* bytes 10-15 = node_id; so the version nibble is always 1 and the        *)
(* variant bits always 10, and ticks = 0, counter = 0, node_id = 0 gives   *)
(* 0x10 at byte 6, 0x80 at byte 8 and zero elsewhere.                      *)
(***************************************************************************)
C9_Version1Layout ==
    call.fn = "Builder::from_rfc4122_timestamp" =>
        LET t == call.ticks
            c == call.counter
        IN  /\ ret = << BitsOf(t, 24, 8), BitsOf(t, 16, 8), BitsOf(t, 8, 8), BitsOf(t, 0, 8),
                        BitsOf(t, 40, 8), BitsOf(t, 32, 8),
                        16 + BitsOf(t, 56, 4), BitsOf(t, 48, 8),
                        128 + ((c \div 256) % 64), c % 256 >> \o call.node_id
            /\ TopBits(At(ret, 6), 4) = 1
            /\ TopBits(At(ret, 8), 2) = 2
            /\ (t = [i \in 0..15 |-> 0] /\ c = 0 /\ call.node_id = <<0, 0, 0, 0, 0, 0>>) =>
                  ret = <<0, 0, 0, 0, 0, 0, 16, 0, 128, 0, 0, 0, 0, 0, 0, 0>>

C9_Witness ==
    /\ call.fn = "Builder::from_rfc4122_timestamp"
    /\ call.ticks = WideOfBE(<<255, 255, 255, 255, 255, 255, 255, 255>>)
    /\ call.counter = 65535
    /\ call.node_id = <<211, 212, 213, 214, 215, 216>>
    /\ ret = <<255, 255, 255, 255, 255, 255, 31, 255, 191, 255, 211, 212, 213, 214, 215, 216>>

(***************************************************************************)
(* C10.  Version-6 layout: from_sorted_rfc4122_timestamp yields            *)
(* bytes 0-3 = ticks bits 28..59 big-endian, bytes 4-5 = ticks bits 12..27 *)
(* big-endian, byte 6 = 0x60 | ticks bits 8..11, byte 7 = ticks bits 0..7, *)
(* and bytes 8-15 as from_rfc4122_timestamp gives them for the same        *)
(* counter and node_id.                                                    *)
(***************************************************************************)
C10_Version6Layout ==
    call.fn = "Builder::from_sorted_rfc4122_timestamp" =>
        LET t == call.ticks
            v1 == Builder_from_rfc4122_timestamp(t, call.counter, call.node_id)
        IN  ret = << BitsOf(t, 52, 8), BitsOf(t, 44, 8), BitsOf(t, 36, 8), BitsOf(t, 28, 8),
                     BitsOf(t, 20, 8), BitsOf(t, 12, 8),
                     96 + BitsOf(t, 8, 4), BitsOf(t, 0, 8) >> \o SubSeq(v1, 9, 16)

C10_Witness ==
    /\ call.fn = "Builder::from_sorted_rfc4122_timestamp"
    /\ call.ticks = WideOfBE(<<161, 162, 163, 164, 177, 178, 193, 194>>)
    /\ call.counter = 65535
    /\ call.node_id = <<211, 212, 213, 214, 215, 216>>
    /\ ret = <<26, 42, 58, 75, 27, 44, 97, 194, 191, 255, 211, 212, 213, 214, 215, 216>>

(***************************************************************************)
(* Order on the integers kept as digit vectors and on byte sequences.      *)
(***************************************************************************)
\* t1 < t2, decided at the most significant digit where they differ
WideLess(t1, t2) ==
    \E i \in DOMAIN t1 :
        /\ t1[i] < t2[i]
        /\ \A j \in DOMAIN t1 : j > i => t1[j] = t2[j]

\* a < b in lexicographic byte order, a and b of the same length
LexLess(a, b) ==
    \E i \in 1..Len(a) :
        /\ a[i] < b[i]
        /\ \A j \in 1..(i - 1) : a[j] = b[j]

Below2Pow60(t) == t[15] = 0

(***************************************************************************)
(* C11.  Version-6 output is sortable by time: for all ticks t1 < t2 below *)
(* 2^60, whatever the counters and node ids, the 16 bytes of               *)
(* from_sorted_rfc4122_timestamp(t1, ..) are strictly less, in             *)
(* lexicographic byte order, than those of                                 *)
(* from_sorted_rfc4122_timestamp(t2, ..).                                  *)
(***************************************************************************)
C11_SortableByTime ==
    \A i, j \in 1..Len(log) :
        (WideLess(log[i].ticks, log[j].ticks) /\ Below2Pow60(log[j].ticks)) =>
            LexLess(log[i].value, log[j].value)

C11_Witness ==
    /\ Len(log) = 2
    /\ log[1].ticks = TicksAllOnesBelow(3)
    /\ log[2].ticks = TicksPowerOf16(3)
    /\ log[1].value = <<0, 0, 0, 0, 0, 0, 111, 255, 191, 255, 255, 255, 255, 255, 255, 255>>
    /\ log[2].value = <<0, 0, 0, 0, 0, 1, 96, 0, 128, 0, 0, 0, 0, 0, 0, 0>>

(***************************************************************************)
(* The all-zero and all-one inputs of a call, whatever their type.         *)
(***************************************************************************)
AllBytes(s, x) == \A i \in 1..Len(s) : s[i] = x

AllDigits(v, x) == \A i \in DOMAIN v : v[i] = x

\* every argument of the call in progress has all its bits equal to bit
ArgsAll(bit) ==
    LET byte == 255 * bit
        digit == 15 * bit
        word == 65535 * bit
    IN  CASE call.fn \in {"Uuid::from_bytes", "Uuid::from_bytes_le"} -> AllBytes(call.b, byte)
          [] call.fn \in {"Uuid::from_slice", "Uuid::from_slice_le"} ->
                Len(call.b) = 16 /\ AllBytes(call.b, byte)
          [] call.fn \in {"Uuid::from_fields", "Uuid::from_fields_le"} ->
                /\ AllDigits(call.d1, digit)
                /\ call.d2 = word
                /\ call.d3 = word
                /\ AllBytes(call.d4, byte)
          [] call.fn \in {"Uuid::from_u128", "Uuid::from_u128_le"} -> AllDigits(call.v, digit)
          [] call.fn = "Uuid::from_u64_pair" ->
                AllDigits(call.high_bits, digit) /\ AllDigits(call.low_bits, digit)
          [] OTHER -> FALSE

\* the value a call returned: the Ok value of the slice constructors, ret otherwise
Returned == IF call.fn \in SliceFns THEN ret.value ELSE ret

(***************************************************************************)
(* C12.  The sentinels are fixed points of every constructor path:         *)
(* Uuid::nil() and Builder::nil().into_uuid() are 16 bytes of 0x00,        *)
(* Uuid::max() is 16 bytes of 0xFF, and from_bytes, from_bytes_le,         *)
(* from_slice, from_slice_le, from_fields, from_fields_le, from_u128,      *)
(* from_u128_le and from_u64_pair return the nil value on the all-zero     *)
(* input and the max value on the all-one input.                           *)
(***************************************************************************)
C12_Sentinels ==
    /\ call.fn = "Uuid::nil" => Len(ret) = 16 /\ AllBytes(ret, 0)
    /\ call.fn = "Builder::nil" =>
          Len(Builder_into_uuid(ret)) = 16 /\ AllBytes(Builder_into_uuid(ret), 0)
    /\ call.fn = "Uuid::max" => Len(ret) = 16 /\ AllBytes(ret, 255)
    /\ ArgsAll(0) => (Len(Returned) = 16 /\ AllBytes(Returned, 0) /\ Returned = Uuid_nil)
    /\ ArgsAll(1) => (Len(Returned) = 16 /\ AllBytes(Returned, 255) /\ Returned = Uuid_max)

C12_Witness ==
    /\ call.fn = "Uuid::from_fields_le"
    /\ ArgsAll(1)
    /\ ret = <<255, 255, 255, 255, 255, 255, 255, 255, 255, 255, 255, 255, 255, 255, 255, 255>>

(***************************************************************************)
(* Inputs that differ from a given one only where C13 says it does not     *)
(* matter.  Bits 45 and above of the seconds move the millisecond count by *)
(* a multiple of 1000 * 2^45 = 125 * 2^48.                                 *)
(***************************************************************************)
SecsHighVariants(d) ==
    {[d EXCEPT !.secs = [i \in 0..15 |->
                            IF i >= 12 THEN h
                            ELSE IF i = 11 THEN (d.secs[11] % 2) + 2 * t
                            ELSE d.secs[i]]] : h \in {0, 5, 15}, t \in {0, 7}}

RandomDontCareVariants(r) ==
    {[r EXCEPT ![3] = LowBits(r[3], 6) + 64 * top, ![11] = last] :
        top \in 0..3, last \in {0, 90, 255}}

Low48(ms) == AndLow(ms, 48)

(***************************************************************************)
(* C13.  from_timestamp_millis(d, r): bytes 0-3 are bits 16..47 of the     *)
(* millisecond count of d, big-endian, bytes 4-5 its bits 0..15,           *)
(* big-endian; byte 7 is r[0], the low nibble of byte 6 is the low nibble  *)
(* of r[1], the low 6 bits of byte 8 are the low 6 bits of r[2], bytes     *)
(* 9-15 are r[3]..r[9].  Bits 48 and above of the millisecond count, the   *)
(* top 2 bits of r[2] and the whole of r[10] have no influence on the      *)
(* result.                                                                 *)
(***************************************************************************)
C13_Version7Fields ==
    call.fn = "Builder::from_timestamp_millis" =>
        LET ms == Duration_as_millis(call.since_unix_epoch)
            r == call.random_bytes
            u == Builder_into_uuid(ret)
        IN  /\ At(u, 0) = BitsOf(ms, 40, 8)
            /\ At(u, 1) = BitsOf(ms, 32, 8)
            /\ At(u, 2) = BitsOf(ms, 24, 8)
            /\ At(u, 3) = BitsOf(ms, 16, 8)
            /\ At(u, 4) = BitsOf(ms, 8, 8)
            /\ At(u, 5) = BitsOf(ms, 0, 8)
            /\ At(u, 7) = At(r, 0)
            /\ LowBits(At(u, 6), 4) = LowBits(At(r, 1), 4)
            /\ LowBits(At(u, 8), 6) = LowBits(At(r, 2), 6)
            /\ \A i \in 9..15 : At(u, i) = At(r, i - 6)
            /\ \A d \in SecsHighVariants(call.since_unix_epoch), x \in RandomDontCareVariants(r) :
                  Low48(Duration_as_millis(d)) = Low48(ms) =>
                      Builder_from_timestamp_millis(d, x) = ret

C13_Witness ==
    /\ call.fn = "Builder::from_timestamp_millis"
    /\ call.since_unix_epoch = [secs |-> WideOfBE(<<161, 162, 163, 164, 177, 178, 193, 194>>),
                                nanos |-> 999999999]
    /\ call.random_bytes = <<70, 235, 208, 238, 14, 109, 67, 201, 185, 13, 204>>
    /\ ret = <<59, 86, 34, 68, 225, 183, 251, 70, 144, 238, 14, 109, 67, 201, 185, 13>>
    /\ BitsOf(Duration_as_millis(call.since_unix_epoch), 48, 16) = 25423
    /\ \E d \in SecsHighVariants(call.since_unix_epoch) :
          /\ Low48(Duration_as_millis(d)) = Low48(Duration_as_millis(call.since_unix_epoch))
          /\ BitsOf(Duration_as_millis(d), 48, 16) # 25423

\* the calls of the staging history that wrote a marker
Stamps == {i \in 1..Len(log) : log[i].kind \in {"variant", "version"}}

\* the staged value right after call i of the history
StagedAfter(i) == IF i < Len(log) THEN log[i + 1].pre ELSE builder

(***************************************************************************)
(* C14.  Builder staging is transparent.  Each of Builder::from_bytes,     *)
(* from_bytes_le, from_fields, from_fields_le, from_u128, from_u128_le and *)
(* nil holds exactly the value the Uuid constructor of the same name gives *)
(* on the same arguments; a builder driven with set_variant / set_version  *)
(* and one driven with with_variant / with_version through the same stamps *)
(* hold identical bytes after every step; as_uuid views exactly the bytes  *)
(* into_uuid would return, and as_uuid calls leave the staged value        *)
(* unchanged.                                                              *)
(***************************************************************************)
C14_StagingTransparent ==
    /\ Stamps = {} => Builder_into_uuid(builder) = origin
    /\ Builder_into_uuid(builder) = Builder_into_uuid(ret)
    /\ \A i \in 1..Len(log) :
          /\ log[i].kind = "as_uuid" =>
                /\ log[i].out = Builder_into_uuid(log[i].pre)
                /\ StagedAfter(i) = log[i].pre
          /\ log[i].kind = "into_uuid" =>
                /\ log[i].out = Builder_as_uuid(log[i].pre)
                /\ \A j \in 1..(i - 1) :
                      (log[j].kind = "as_uuid" /\ \A k \in j..(i - 1) : k \notin Stamps) =>
                          log[j].out = log[i].out

C14_Witness ==
    /\ call.fn = "Builder::into_uuid"
    /\ Len(log) = 3
    /\ log[1].kind = "variant"
    /\ log[2].kind = "as_uuid"
    /\ log[3].kind = "into_uuid"
    /\ origin = <<161, 162, 163, 164, 177, 178, 193, 194, 209, 210, 211, 212, 213, 214, 215, 216>>
    /\ builder = <<161, 162, 163, 164, 177, 178, 193, 194, 145, 210, 211, 212, 213, 214, 215, 216>>
    /\ ret = builder
    /\ log[2].out = builder
    /\ log[3].out = builder

====
